---------------------------- MODULE Spec2Model ----------------------------
(***************************************************************************)
(* Model of the usePlacesAutocomplete hook (src/src/index.ts): the         *)
(* debounced search pipeline, its React state (predictions, loading,       *)
(* error), the debounce timer held in a ref, the in-flight fetches and     *)
(* the unmount cleanup.                                                    *)
(*                                                                         *)
(* Time is counted in ticks; a timer armed by setTimeout(cb, debounceMs)   *)
(* becomes due DebounceMs ticks later.  Strings that the code inspects     *)
(* (the query text, which it trims) are sequences of characters.           *)
(***************************************************************************)
EXTENDS Integers, Sequences, FiniteSets, TLC

VARIABLES
    predictions,    \* useState<PlacePrediction[]>([])
    loading,        \* useState(false)
    error,          \* useState<Error | null>(null)
    status,         \* suggestions.status of the declared result type
    debounceTimer,  \* debounceTimer.current: 0 is null, else a timer handle
    timers,         \* the armed timers of the event loop
    elapsed,        \* ticks since the latest debouncedSearch call, capped
    cancelled,      \* handles that clearTimeout removed while armed
    calls,          \* every debouncedSearch call, in call order, with the
                    \* state of the promise it returned
    searches,       \* every invocation of search(input), in invocation order;
                    \* raced: another fetch was unanswered while its own was
    mounted,        \* FALSE once the component is unmounted
    value,          \* the query text the hook holds
    details,        \* every getPlaceDetails call, in call order
    options,        \* the options the hook was constructed with
    selections,     \* the arguments the setSelectedPlace callback was
                    \* called with, in call order
    other,          \* the state of a second instance of the hook; the
                    \* variables above are those of the instance that acts
    history         \* where it is recorded: whether clear() was called and
                    \* how many debouncedSearch calls preceded the latest

vars == <<predictions, loading, error, status, debounceTimer, timers,
          elapsed, cancelled, calls, searches, mounted, value, details, options,
                   selections, other, history>>

---------------------------------------------------------------------------
(* Bounds and inputs *)

\* debouncedSearch calls explored in one behaviour
MaxCalls == 3

\* debouncedSearch calls in one behaviour of the fair specification
MaxFairCalls == 2

\* debouncedSearch calls in one behaviour with place details
MaxDetailCalls == 1

\* getPlaceDetails calls explored in one behaviour
MaxDetails == 1

\* debouncedSearch calls of two instances together in one behaviour
MaxPairCalls == 2

\* debouncedSearch calls in one behaviour with options configured
MaxOptionCalls == 1

\* handlePlaceSelect calls explored in one behaviour
MaxSelects == 1

\* setValue calls that schedule a search, explored in one behaviour
MaxValueCalls == 2

\* the debounce interval, in ticks (debounceMs, 300 ms by default)
DebounceMs == 2

\* query texts: "", " ", "a", " b"
Queries == { <<>>, <<" ">>, <<"a">>, <<" ", "b">> }

\* the query text searched for next to calls of getPlaceDetails: "a"
DetailQueries == { <<"a">> }

\* the query texts searched for with options configured: "a", " b"
OptionQueries == { <<"a">>, <<" ", "b">> }

\* a value that is absent in a JSON body
Undefined == "undefined"

\* the error state null
NoError == [name |-> "null", message |-> ""]

\* an option or field that was not supplied, and one supplied as v
NotSupplied == <<>>
Supplied(v) == <<v>>

\* the location option: lat and lng, radius optional
Locations ==
    { NotSupplied,
      Supplied([lat |-> 48, lng |-> 16, radius |-> NotSupplied]),
      Supplied([lat |-> 48, lng |-> 16, radius |-> Supplied(500)]) }

\* the options of the hook besides the API key
Options ==
    [debounceMs : {NotSupplied, Supplied(1)},
     language : {NotSupplied, Supplied("de")},
     types : {NotSupplied, Supplied(<<>>), Supplied(<<"geocode">>)},
     location : Locations,
     setSelectedPlace : BOOLEAN]

DefaultOptions ==
    [debounceMs |-> NotSupplied, language |-> NotSupplied,
     types |-> NotSupplied, location |-> NotSupplied,
     setSelectedPlace |-> FALSE]

\* debounceMs = 300: the configured interval, or the default
debounceMs ==
    IF options.debounceMs = NotSupplied THEN DebounceMs
    ELSE options.debounceMs[1]

\* language = 'en': the configured language code, or the default
language ==
    IF options.language = NotSupplied THEN "en" ELSE options.language[1]

---------------------------------------------------------------------------
(* Pure helpers *)

IsWhiteSpace(c) == c \in {" ", "\t", "\n"}

RECURSIVE TrimStart(_)
TrimStart(s) ==
    IF s = <<>> THEN <<>>
    ELSE IF IsWhiteSpace(Head(s)) THEN TrimStart(Tail(s))
    ELSE s

RECURSIVE TrimEnd(_)
TrimEnd(s) ==
    IF s = <<>> THEN <<>>
    ELSE IF IsWhiteSpace(s[Len(s)]) THEN TrimEnd(SubSeq(s, 1, Len(s) - 1))
    ELSE s

\* (mutant) no trimming: only the empty string counts as empty
Trim_None(s) == s

\* String.prototype.trim
Trim(s) == TrimEnd(TrimStart(s))

---------------------------------------------------------------------------
(* What fetch can answer *)

\* suggestion lists a successful body may carry
SuggestionLists ==
    { <<>>,
      <<[placePrediction |-> "p1"]>>,
      <<[placePrediction |-> "p2"], [placePrediction |-> "p1"]>> }

\* values fetch() may reject with: an Error instance, or any other value
Thrown ==
    { [isError |-> TRUE, name |-> "TypeError", message |-> "Network error"],
      [isError |-> FALSE, name |-> "string", message |-> "boom"] }

\* the bodies response.json() may yield; parses = FALSE: json() rejects
Bodies ==
    { [parses |-> FALSE, errorMessage |-> Undefined,
       hasSuggestions |-> FALSE, suggestions |-> <<>>],
      [parses |-> TRUE, errorMessage |-> "denied",
       hasSuggestions |-> FALSE, suggestions |-> <<>>],
      [parses |-> TRUE, errorMessage |-> Undefined,
       hasSuggestions |-> FALSE, suggestions |-> <<>>] }
    \cup { [parses |-> TRUE, errorMessage |-> Undefined,
            hasSuggestions |-> TRUE, suggestions |-> l] : l \in SuggestionLists }

NoBody == [parses |-> FALSE, errorMessage |-> Undefined,
           hasSuggestions |-> FALSE, suggestions |-> <<>>]

NoThrown == [isError |-> FALSE, name |-> "", message |-> ""]

\* fetch() rejects (transport failure) or resolves with a Response
Responses ==
    { [kind |-> "reject", thrown |-> t, ok |-> FALSE, status |-> 0,
       body |-> NoBody] : t \in Thrown }
    \cup { [kind |-> "response", thrown |-> NoThrown, ok |-> TRUE,
            status |-> 200, body |-> b] :
              b \in {x \in Bodies : x.errorMessage = Undefined} }
    \cup { [kind |-> "response", thrown |-> NoThrown, ok |-> FALSE,
            status |-> 403, body |-> b] :
              b \in {x \in Bodies : ~x.hasSuggestions} }

\* the answers explored with two instances: a transport failure and a
\* success with one suggestion
PairResponses ==
    {r \in Responses :
        \/ r.kind = "reject" /\ r.thrown.isError
        \/ r.ok /\ r.body.hasSuggestions /\ Len(r.body.suggestions) = 1}

---------------------------------------------------------------------------
(* search: how an answer becomes state *)

\* (mutant) a catch block that always stores a generic Error
CatchError_Generic(t) == [name |-> "Error", message |-> "An error occurred"]

\* err instanceof Error ? err : new Error('An error occurred')
CatchError(t) ==
    IF t.isError THEN [name |-> t.name, message |-> t.message]
    ELSE [name |-> "Error", message |-> "An error occurred"]

\* errorData.error?.message || `HTTP error! status: ${response.status}`
HttpErrorMessage(r) ==
    IF r.body.errorMessage \notin {Undefined, ""}
    THEN r.body.errorMessage
    ELSE "HTTP error! status: " \o ToString(r.status)

\* (mutant) the suggestions mapped in reverse order
MapSuggestions_Reversed(l) ==
    [i \in 1..Len(l) |-> l[Len(l) + 1 - i].placePrediction]

\* data.suggestions.map(suggestion => suggestion.placePrediction)
MapSuggestions(l) == [i \in 1..Len(l) |-> l[i].placePrediction]

\* (mutant) data.suggestions?.map(...) || []: a missing list is no failure
JsonThrown_Lenient(r) ==
    IF ~r.body.parses
    THEN [isError |-> TRUE, name |-> "SyntaxError",
          message |-> "Unexpected token"]
    ELSE IF ~r.ok
    THEN [isError |-> TRUE, name |-> "Error", message |-> HttpErrorMessage(r)]
    ELSE NoThrown

\* what the body of a resolved Response throws, if anything
JsonThrown(r) ==
    IF ~r.body.parses
    THEN [isError |-> TRUE, name |-> "SyntaxError",
          message |-> "Unexpected token"]
    ELSE IF ~r.ok
    THEN [isError |-> TRUE, name |-> "Error", message |-> HttpErrorMessage(r)]
    ELSE IF ~r.body.hasSuggestions
    THEN [isError |-> TRUE, name |-> "TypeError",
          message |-> "Cannot read properties of undefined (reading 'map')"]
    ELSE NoThrown

---------------------------------------------------------------------------
(* React state *)

\* (mutant) a setter that also writes after the component is unmounted
SetState_AfterUnmount(cur, new) == new

\* a useState setter: the value is replaced while the component is mounted;
\* React drops an update of an unmounted component
SetState(cur, new) == IF mounted THEN new ELSE cur

\* suggestions.status, which src/src/types.ts declares and the hook in
\* src/src/index.ts does not compute: the tag after clear, after a successful
\* answer, after a failure and while a search is running, as the
\* specification states them
StatusCleared == "ZERO_RESULTS"
StatusOf(preds) == IF Len(preds) > 0 THEN "OK" ELSE "ZERO_RESULTS"
StatusFailed == "ERROR"
StatusLoading == "LOADING"

\* value, the query text that src/src/types.ts declares next to setValue and
\* clearSuggestions and the hook in src/src/index.ts does not hold: its
\* content after clear, as the specification states it
ValueCleared == <<>>

\* the instance that acts, its number being that of the other one's other
focus == 3 - other.id

\* the state cells of one call of the hook, held as instance n: its
\* useState and useRef cells, its timers and its calls
InstanceAs(n) ==
    [id |-> n, predictions |-> predictions, loading |-> loading,
     error |-> error, status |-> status, debounceTimer |-> debounceTimer,
     timers |-> timers, elapsed |-> elapsed, cancelled |-> cancelled,
     calls |-> calls, searches |-> searches, mounted |-> mounted,
     value |-> value, details |-> details, options |-> options,
     selections |-> selections]

\* no history is recorded
NoHistory == [recording |-> FALSE, cleared |-> FALSE, at |-> 0]

\* the history is recorded and clear() was not called yet
NotCleared == [recording |-> TRUE, cleared |-> FALSE, at |-> 0]

\* the history after a call of clear()
Cleared ==
    IF history.recording
    THEN [recording |-> TRUE, cleared |-> TRUE, at |-> Len(calls)]
    ELSE history

\* (mutant) a hook that is constructed loading
Construct_Loading(o) ==
    /\ options = o
    /\ selections = <<>>
    /\ predictions = <<>>
    /\ loading = TRUE
    /\ error = NoError
    /\ status = "LOADING"
    /\ debounceTimer = 0
    /\ timers = {}
    /\ elapsed = debounceMs
    /\ cancelled = {}
    /\ calls = <<>>
    /\ searches = <<>>
    /\ mounted = TRUE
    /\ value = <<>>
    /\ details = <<>>
    /\ other = InstanceAs(2)

\* the state after construction with the options o
Construct(o) ==
    /\ options = o
    /\ selections = <<>>
    /\ predictions = <<>>
    /\ loading = FALSE
    /\ error = NoError
    /\ status = "ZERO_RESULTS"
    /\ debounceTimer = 0
    /\ timers = {}
    /\ elapsed = debounceMs
    /\ cancelled = {}
    /\ calls = <<>>
    /\ searches = <<>>
    /\ mounted = TRUE
    /\ value = <<>>
    /\ details = <<>>
    /\ other = InstanceAs(2)

\* a hook constructed with the API key alone
Init == Construct(DefaultOptions) /\ history = NoHistory

\* a hook constructed with any of the options
InitOptions == (\E o \in Options : Construct(o)) /\ history = NoHistory

---------------------------------------------------------------------------
(* Operations *)

\* (mutant) clearTimeout that disarms nothing
ClearTimeout_Noop(h) == timers

\* clearTimeout(h): the armed timers without h
ClearTimeout(h) == {t \in timers : t.id # h}

\* (mutant) a cleanup that leaves the pending timer armed
cleanup_KeepsTimer == timers

\* the armed timers after the useEffect cleanup:
\* if (debounceTimer.current) clearTimeout(debounceTimer.current)
cleanup == IF debounceTimer # 0 THEN ClearTimeout(debounceTimer) ELSE timers

\* (mutant) a clear that also ends the loading state
clear_StopsLoading ==
    /\ predictions' = SetState(predictions, <<>>)
    /\ error' = SetState(error, NoError)
    /\ loading' = SetState(loading, FALSE)
    /\ status' = SetState(status, StatusCleared)
    /\ value' = SetState(value, ValueCleared)
    /\ UNCHANGED <<debounceTimer, timers, elapsed, cancelled, calls,
                   searches, mounted, details, options,
                   selections, other>>
    /\ history' = Cleared

\* (mutant) a clear that empties the predictions and keeps the error
clear_KeepsError ==
    /\ predictions' = SetState(predictions, <<>>)
    /\ status' = SetState(status, StatusCleared)
    /\ value' = SetState(value, ValueCleared)
    /\ UNCHANGED <<error, loading, debounceTimer, timers, elapsed, cancelled,
                   calls, searches, mounted, details, options,
                   selections, other>>
    /\ history' = Cleared

\* clear(): setPredictions([]); setError(null)
clear ==
    /\ predictions' = SetState(predictions, <<>>)
    /\ error' = SetState(error, NoError)
    /\ status' = SetState(status, StatusCleared)
    /\ value' = SetState(value, ValueCleared)
    /\ UNCHANGED <<loading, debounceTimer, timers, elapsed, cancelled, calls,
                   searches, mounted, details, options,
                   selections, other>>
    /\ history' = Cleared

\* (mutant) a debouncedSearch that keeps the deadline of the pending timer
debounce_NoRestart(input) ==
    /\ Len(calls) < MaxCalls
    /\ LET h == Len(calls) + 1
           kept == IF debounceTimer # 0 THEN ClearTimeout(debounceTimer)
                   ELSE timers
           left == {t.remaining : t \in timers \ kept}
       IN /\ timers' = kept \cup {[id |-> h, input |-> input,
                                   remaining |-> IF left = {} THEN debounceMs
                                                 ELSE CHOOSE n \in left : TRUE]}
          /\ cancelled' = cancelled \cup {t.id : t \in timers \ kept}
          /\ debounceTimer' = h
          /\ calls' = Append(calls, [input |-> input,
                                    chained |-> calls # <<>> /\ elapsed < debounceMs,
                                    mounted |-> mounted,
                                    promise |-> "pending"])
    /\ elapsed' = 0
    /\ UNCHANGED <<predictions, loading, error, status, searches, mounted,
                   details, options,
                   selections, other, history>>

\* (mutant) a debouncedSearch that cancels the pending timer and arms none
debounce_NoTimer(input) ==
    /\ Len(calls) < MaxCalls
    /\ LET kept == IF debounceTimer # 0 THEN ClearTimeout(debounceTimer)
                   ELSE timers
       IN /\ timers' = kept
          /\ cancelled' = cancelled \cup {t.id : t \in timers \ kept}
          /\ debounceTimer' = Len(calls) + 1
          /\ calls' = Append(calls, [input |-> input,
                                    chained |-> calls # <<>> /\ elapsed < debounceMs,
                                    mounted |-> mounted,
                                    promise |-> "pending"])
    /\ elapsed' = 0
    /\ UNCHANGED <<predictions, loading, error, status, searches, mounted,
                   details, options,
                   selections, other, history>>

\* the body of debouncedSearch(input): cancel the timer the ref holds, arm a
\* new one and return a pending promise
debounce(input) ==
    /\ Len(calls) < MaxCalls
    /\ LET h == Len(calls) + 1
           kept == IF debounceTimer # 0 THEN ClearTimeout(debounceTimer)
                   ELSE timers
       IN /\ timers' = kept \cup {[id |-> h, input |-> input,
                                   remaining |-> debounceMs]}
          /\ cancelled' = cancelled \cup {t.id : t \in timers \ kept}
          /\ debounceTimer' = h
          /\ calls' = Append(calls, [input |-> input,
                                    chained |-> calls # <<>> /\ elapsed < debounceMs,
                                    mounted |-> mounted,
                                    promise |-> "pending"])
    /\ elapsed' = 0
    /\ UNCHANGED <<predictions, loading, error, status, searches, mounted,
                   details, options,
                   selections, other, history>>

\* debouncedSearch(input), the search function the hook returns
debouncedSearch(input) ==
    /\ debounce(input)
    /\ UNCHANGED value

\* setValue(value, shouldFetchData), declared in src/src/types.ts: the query
\* text is replaced, and a search is scheduled unless the caller opts out
setValue(text, shouldFetchData) ==
    /\ shouldFetchData => Len(calls) < MaxValueCalls
    /\ value' = SetState(value, text)
    /\ IF shouldFetchData
       THEN debounce(text)
       ELSE UNCHANGED <<predictions, loading, error, status, debounceTimer,
                        timers, elapsed, cancelled, calls, searches, mounted,
                        details, options,
                   selections, other, history>>

\* (mutant) time passes and no delay of an armed timer runs down
Tick_Stalls ==
    /\ \A t \in timers : t.remaining > 0
    /\ timers # {} \/ elapsed < debounceMs
    /\ elapsed' = IF elapsed < debounceMs THEN elapsed + 1 ELSE elapsed
    /\ UNCHANGED <<predictions, loading, error, status, debounceTimer, timers,
                   cancelled, calls, searches, mounted, value, details, options,
                   selections, other, history>>

\* one tick of time passes; a due timer runs before time moves on
Tick ==
    /\ \A t \in timers : t.remaining > 0
    /\ timers # {} \/ elapsed < debounceMs
    /\ timers' = {[t EXCEPT !.remaining = @ - 1] : t \in timers}
    /\ elapsed' = IF elapsed < debounceMs THEN elapsed + 1 ELSE elapsed
    /\ UNCHANGED <<predictions, loading, error, status, debounceTimer,
                   cancelled, calls, searches, mounted, value, details, options,
                   selections, other, history>>

\* resolve(): the promise that call h returned is resolved
Resolved(h) == [calls EXCEPT ![h].promise = "resolved"]

\* locationBias: { circle: { center: { latitude, longitude }, radius } };
\* JSON.stringify leaves out a radius that is undefined
LocationBias(l) ==
    IF l.radius = NotSupplied
    THEN [circle |-> [center |-> [latitude |-> l.lat, longitude |-> l.lng]]]
    ELSE [circle |-> [center |-> [latitude |-> l.lat, longitude |-> l.lng],
                      radius |-> l.radius[1]]]

\* (mutant) a request body that carries the trimmed query text
RequestBody_Trimmed(input) ==
    [k \in {"input", "languageCode"}
           \cup (IF options.types # NotSupplied THEN {"types"} ELSE {})
           \cup (IF options.location # NotSupplied THEN {"locationBias"}
                 ELSE {}) |->
        CASE k = "input" -> Trim(input)
          [] k = "languageCode" -> language
          [] k = "types" -> options.types[1]
          [] k = "locationBias" -> LocationBias(options.location[1])]

\* (mutant) a request body with the default language code
RequestBody_DefaultLanguage(input) ==
    [k \in {"input", "languageCode"}
           \cup (IF options.types # NotSupplied THEN {"types"} ELSE {})
           \cup (IF options.location # NotSupplied THEN {"locationBias"}
                 ELSE {}) |->
        CASE k = "input" -> input
          [] k = "languageCode" -> "en"
          [] k = "types" -> options.types[1]
          [] k = "locationBias" -> LocationBias(options.location[1])]

\* JSON.stringify(requestBody): input and languageCode, with types and
\* locationBias when the options are set
RequestBody(input) ==
    [k \in {"input", "languageCode"}
           \cup (IF options.types # NotSupplied THEN {"types"} ELSE {})
           \cup (IF options.location # NotSupplied THEN {"locationBias"}
                 ELSE {}) |->
        CASE k = "input" -> input
          [] k = "languageCode" -> language
          [] k = "types" -> options.types[1]
          [] k = "locationBias" -> LocationBias(options.location[1])]

\* the body of a search that dispatched no request
NoRequest == [k \in {} |-> k]

\* (mutant) a search that empties the predictions when it starts
search_ClearsPredictions(t) ==
    IF Trim(t.input) = <<>>
    THEN /\ predictions' = SetState(predictions, <<>>)
         /\ error' = SetState(error, NoError)
         /\ status' = SetState(status, StatusCleared)
         /\ searches' = Append(searches,
                [timer |-> t.id, input |-> t.input, fetched |-> FALSE,
                 pc |-> "done", late |-> FALSE, raced |-> FALSE,
                 body |-> NoRequest])
         /\ UNCHANGED loading
    ELSE /\ loading' = SetState(loading, TRUE)
         /\ error' = SetState(error, NoError)
         /\ status' = SetState(status, StatusLoading)
         /\ predictions' = SetState(predictions, <<>>)
         /\ searches' = Append(
                [i \in DOMAIN searches |->
                    [searches[i] EXCEPT !.raced = @ \/ searches[i].pc = "fetch"]],
                [timer |-> t.id, input |-> t.input, fetched |-> TRUE,
                 pc |-> "fetch", late |-> FALSE,
                 raced |-> \E i \in DOMAIN searches : searches[i].pc = "fetch",
                 body |-> RequestBody(t.input)])

\* search(input) up to its first await: the empty-query return, or
\* setLoading(true), setError(null) and the fetch with the request body
search(t) ==
    IF Trim(t.input) = <<>>
    THEN /\ predictions' = SetState(predictions, <<>>)
         /\ error' = SetState(error, NoError)
         /\ status' = SetState(status, StatusCleared)
         /\ searches' = Append(searches,
                [timer |-> t.id, input |-> t.input, fetched |-> FALSE,
                 pc |-> "done", late |-> FALSE, raced |-> FALSE,
                 body |-> NoRequest])
         /\ UNCHANGED loading
    ELSE /\ loading' = SetState(loading, TRUE)
         /\ error' = SetState(error, NoError)
         /\ status' = SetState(status, StatusLoading)
         /\ searches' = Append(
                [i \in DOMAIN searches |->
                    [searches[i] EXCEPT !.raced = @ \/ searches[i].pc = "fetch"]],
                [timer |-> t.id, input |-> t.input, fetched |-> TRUE,
                 pc |-> "fetch", late |-> FALSE,
                 raced |-> \E i \in DOMAIN searches : searches[i].pc = "fetch",
                 body |-> RequestBody(t.input)])
         /\ UNCHANGED predictions

\* (mutant) a timer that stays armed after it ran, as setInterval would
TimerFire_Repeats(t) ==
    /\ t \in timers
    /\ t.remaining = 0
    /\ timers' = timers
    /\ search(t)
    /\ calls' = IF searches'[Len(searches')].pc = "done"
                THEN Resolved(t.id) ELSE calls
    /\ UNCHANGED <<debounceTimer, elapsed, cancelled, mounted, value, details, options,
                   selections, other, history>>

\* (mutant) a timer callback that runs before its delay has passed
TimerFire_Early(t) ==
    /\ t \in timers
    /\ timers' = timers \ {t}
    /\ search(t)
    /\ calls' = IF searches'[Len(searches')].pc = "done"
                THEN Resolved(t.id) ELSE calls
    /\ UNCHANGED <<debounceTimer, elapsed, cancelled, mounted, value, details,
                   options, selections, other, history>>

\* the setTimeout callback of debouncedSearch runs: await search(input),
\* then resolve() once search has returned
TimerFire(t) ==
    /\ t \in timers
    /\ t.remaining = 0
    /\ timers' = timers \ {t}
    /\ search(t)
    /\ calls' = IF searches'[Len(searches')].pc = "done"
                THEN Resolved(t.id) ELSE calls
    /\ UNCHANGED <<debounceTimer, elapsed, cancelled, mounted, value, details, options,
                   selections, other, history>>

\* what the try block of search throws for the answer r, if anything:
\* the rejection of fetch, the rejection of response.json(), the Error thrown
\* for a failure status, or the TypeError of reading .map of undefined
SearchThrown(r) ==
    IF r.kind = "reject" THEN r.thrown ELSE JsonThrown(r)

\* (mutant) a catch block that rethrows what is not an Error
Caught_OnlyErrors(t) == t.isError

\* catch (err): the catch block of search takes every thrown value
Caught(t) == TRUE

\* where search i ends for the answer r: it returns ("done") unless a thrown
\* value leaves the function ("threw")
SearchEnd(r) ==
    IF SearchThrown(r) # NoThrown /\ ~Caught(SearchThrown(r))
    THEN "threw" ELSE "done"

\* (mutant) setLoading(false) at the end of the try block, not in finally
Settle_NoFinally(i, r) ==
    /\ i \in DOMAIN searches
    /\ searches[i].pc = "fetch"
    /\ IF SearchThrown(r) # NoThrown
       THEN /\ error' = SetState(error, CatchError(SearchThrown(r)))
            /\ predictions' = SetState(predictions, <<>>)
            /\ status' = SetState(status, StatusFailed)
            /\ UNCHANGED loading
       ELSE /\ predictions' =
                  SetState(predictions, MapSuggestions(r.body.suggestions))
            /\ status' =
                  SetState(status, StatusOf(MapSuggestions(r.body.suggestions)))
            /\ loading' = SetState(loading, FALSE)
            /\ UNCHANGED error
    /\ searches' = [searches EXCEPT ![i].pc = "done", ![i].late = ~mounted]
    /\ calls' = Resolved(searches[i].timer)
    /\ UNCHANGED <<debounceTimer, timers, elapsed, cancelled, mounted, value,
                   details, options,
                   selections, other, history>>

\* the answer to the fetch of search i arrives and the rest of search runs:
\* await fetch, await response.json(), setPredictions or the catch block,
\* then the finally block; once search has returned, the timer callback
\* calls resolve().  No state is written between the two awaits, so they are
\* one step.
Settle(i, r) ==
    /\ i \in DOMAIN searches
    /\ searches[i].pc = "fetch"
    /\ IF SearchThrown(r) = NoThrown
       THEN /\ predictions' =
                  SetState(predictions, MapSuggestions(r.body.suggestions))
            /\ status' =
                  SetState(status, StatusOf(MapSuggestions(r.body.suggestions)))
            /\ UNCHANGED error
       ELSE IF Caught(SearchThrown(r))
       THEN /\ error' = SetState(error, CatchError(SearchThrown(r)))
            /\ predictions' = SetState(predictions, <<>>)
            /\ status' = SetState(status, StatusFailed)
       ELSE UNCHANGED <<predictions, error, status>>
    /\ loading' = SetState(loading, FALSE)
    /\ searches' = [searches EXCEPT ![i].pc = SearchEnd(r),
                                    ![i].late = ~mounted]
    /\ calls' = IF SearchEnd(r) = "done" THEN Resolved(searches[i].timer)
                ELSE calls
    /\ UNCHANGED <<debounceTimer, timers, elapsed, cancelled, mounted, value,
                   details, options,
                   selections, other, history>>

\* the useEffect cleanup, run when the component unmounts
Unmount ==
    /\ mounted
    /\ mounted' = FALSE
    /\ timers' = cleanup
    /\ cancelled' = cancelled \cup {t.id : t \in timers \ cleanup}
    /\ UNCHANGED <<predictions, loading, error, status, debounceTimer, elapsed,
                   calls, searches, value, details, options,
                   selections, other, history>>

---------------------------------------------------------------------------
(* getPlaceDetails *)

\* place identifiers: "" and "1"
PlaceIds == {"", "1"}

\* addressComponents arrays a details body may carry: none, a full address,
\* and two components that both carry the tag locality
ComponentLists ==
    { <<>>,
      <<[longText |-> "1600", shortText |-> "1600",
         types |-> <<"street_number">>],
        [longText |-> "Amphitheatre Parkway", shortText |-> "Amphitheatre Pkwy",
         types |-> <<"route">>],
        [longText |-> "Mountain View", shortText |-> "MV",
         types |-> <<"locality", "political">>],
        [longText |-> "California", shortText |-> "CA",
         types |-> <<"administrative_area_level_1", "political">>],
        [longText |-> "United States", shortText |-> "US",
         types |-> <<"country", "political">>],
        [longText |-> "94043", shortText |-> "94043",
         types |-> <<"postal_code">>]>>,
      <<[longText |-> "Shelbyville", shortText |-> "Sh",
         types |-> <<"political", "locality">>],
        [longText |-> "Springfield", shortText |-> "Sp",
         types |-> <<"locality", "political">>]>> }

\* the bodies response.json() may yield for a details request
DetailsBodies ==
    { [parses |-> FALSE, errorMessage |-> Undefined,
       formattedAddress |-> Undefined, location |-> NotSupplied,
       hasComponents |-> FALSE, addressComponents |-> <<>>],
      [parses |-> TRUE, errorMessage |-> "Place not found",
       formattedAddress |-> Undefined, location |-> NotSupplied,
       hasComponents |-> FALSE, addressComponents |-> <<>>],
      [parses |-> TRUE, errorMessage |-> Undefined,
       formattedAddress |-> Undefined, location |-> NotSupplied,
       hasComponents |-> FALSE, addressComponents |-> <<>>],
      [parses |-> TRUE, errorMessage |-> Undefined,
       formattedAddress |-> "1 Main St", location |-> <<37, -122>>,
       hasComponents |-> FALSE, addressComponents |-> <<>>] }
    \cup { [parses |-> TRUE, errorMessage |-> Undefined,
            formattedAddress |-> "1 Main St", location |-> <<37, -122>>,
            hasComponents |-> TRUE, addressComponents |-> l] :
              l \in ComponentLists }

\* fetch() of a details request rejects or resolves with a Response
DetailsResponses ==
    { [kind |-> "reject", thrown |-> t, ok |-> FALSE, status |-> 0,
       body |-> CHOOSE b \in DetailsBodies : ~b.parses] : t \in Thrown }
    \cup { [kind |-> "response", thrown |-> NoThrown, ok |-> TRUE,
            status |-> 200, body |-> b] :
              b \in {x \in DetailsBodies :
                       ~x.parses \/ x.formattedAddress # Undefined} }
    \cup { [kind |-> "response", thrown |-> NoThrown, ok |-> FALSE,
            status |-> 404, body |-> b] :
              b \in {x \in DetailsBodies : x.formattedAddress = Undefined} }

\* comp.types.includes(type)
Includes(types, type) == \E j \in DOMAIN types : types[j] = type

\* the result of find when no element matches
NoComponent == [longText |-> Undefined, shortText |-> Undefined,
                types |-> <<>>]

\* components.find(comp => comp.types.includes(type))
RECURSIVE Find(_, _)
Find(components, type) ==
    IF components = <<>> THEN NoComponent
    ELSE IF Includes(Head(components).types, type) THEN Head(components)
    ELSE Find(Tail(components), type)

\* (mutant) the long text of the last component that carries the tag
extractAddressComponent_Last(components, type) ==
    LET component ==
            Find([i \in 1..Len(components) |->
                     components[Len(components) + 1 - i]], type)
    IN IF component = NoComponent THEN Undefined ELSE component.longText

\* extractAddressComponent(components, type): component?.longText
extractAddressComponent(components, type) ==
    LET component == Find(components, type)
    IN IF component = NoComponent THEN Undefined ELSE component.longText

\* the value getPlaceDetails resolves with for the parsed body data
PlaceDetails(placeId, data) ==
    LET addressComponents ==
            IF data.hasComponents THEN data.addressComponents ELSE <<>>
    IN [placeId |-> placeId,
        formattedAddress |-> data.formattedAddress,
        addressComponents |-> addressComponents,
        location |-> data.location,
        streetNumber |->
            extractAddressComponent(addressComponents, "street_number"),
        streetName |-> extractAddressComponent(addressComponents, "route"),
        city |-> extractAddressComponent(addressComponents, "locality"),
        state |-> extractAddressComponent(addressComponents,
                                          "administrative_area_level_1"),
        country |-> extractAddressComponent(addressComponents, "country"),
        postalCode |->
            extractAddressComponent(addressComponents, "postal_code")]

\* the result of a call that has not resolved
NoDetails ==
    [placeId |-> Undefined, formattedAddress |-> Undefined,
     addressComponents |-> <<>>, location |-> NotSupplied,
     streetNumber |-> Undefined, streetName |-> Undefined,
     city |-> Undefined, state |-> Undefined, country |-> Undefined,
     postalCode |-> Undefined]

\* what the try block of getPlaceDetails throws for the answer r, if anything
DetailsThrown(r) ==
    IF r.kind = "reject" THEN r.thrown
    ELSE IF ~r.body.parses
    THEN [isError |-> TRUE, name |-> "SyntaxError",
          message |-> "Unexpected token"]
    ELSE IF ~r.ok
    THEN [isError |-> TRUE, name |-> "Error", message |-> HttpErrorMessage(r)]
    ELSE NoThrown

\* throw err instanceof Error ? err
\*     : new Error('An error occurred while fetching place details')
DetailsCatch(t) ==
    IF t.isError THEN [name |-> t.name, message |-> t.message]
    ELSE [name |-> "Error",
          message |-> "An error occurred while fetching place details"]

\* getPlaceDetails(placeId) up to its first await: the GET request for the
\* identifier is dispatched
getPlaceDetails(placeId) ==
    /\ Len(details) < MaxDetails
    /\ details' = Append(details,
           [placeId |-> placeId, fetched |-> TRUE, pc |-> "fetch",
            rejection |-> NoError, result |-> NoDetails])
    /\ UNCHANGED <<predictions, loading, error, status, debounceTimer, timers,
                   elapsed, cancelled, calls, searches, mounted, value,
                   options, selections, other, history>>

\* (mutant) a details call that parks its failure in the search state
DetailsSettle_StoresError(i, r) ==
    /\ i \in DOMAIN details
    /\ details[i].pc = "fetch"
    /\ IF DetailsThrown(r) = NoThrown
       THEN /\ details' = [details EXCEPT
                  ![i].pc = "resolved",
                  ![i].result = PlaceDetails(details[i].placeId, r.body)]
            /\ UNCHANGED error
       ELSE /\ details' = [details EXCEPT ![i].pc = "resolved"]
            /\ error' = SetState(error, DetailsCatch(DetailsThrown(r)))
    /\ UNCHANGED <<predictions, loading, status, debounceTimer, timers,
                   elapsed, cancelled, calls, searches, mounted, value,
                   options, selections, other, history>>

\* the answer to the fetch of details call i arrives and the rest of
\* getPlaceDetails runs: the promise resolves with the place details or
\* rejects with what the catch block rethrows
DetailsSettle(i, r) ==
    /\ i \in DOMAIN details
    /\ details[i].pc = "fetch"
    /\ details' =
          IF DetailsThrown(r) = NoThrown
          THEN [details EXCEPT
                  ![i].pc = "resolved",
                  ![i].result = PlaceDetails(details[i].placeId, r.body)]
          ELSE [details EXCEPT
                  ![i].pc = "rejected",
                  ![i].rejection = DetailsCatch(DetailsThrown(r))]
    /\ UNCHANGED <<predictions, loading, error, status, debounceTimer, timers,
                   elapsed, cancelled, calls, searches, mounted, value,
                   options, selections, other, history>>

---------------------------------------------------------------------------
(* handlePlaceSelect *)

\* (mutant) a selection handler that also starts a details lookup
handlePlaceSelect_FetchesDetails(placeId) ==
    /\ Len(selections) < MaxSelects
    /\ selections' = Append(selections, placeId)
    /\ details' = Append(details,
           [placeId |-> placeId, fetched |-> TRUE, pc |-> "fetch",
            rejection |-> NoError, result |-> NoDetails])
    /\ UNCHANGED <<predictions, loading, error, status, debounceTimer, timers,
                   elapsed, cancelled, calls, searches, mounted, value,
                   options, other, history>>

\* handlePlaceSelect(placeId), declared in src/src/types.ts: the
\* setSelectedPlace callback, when configured, is called with the identifier
handlePlaceSelect(placeId) ==
    /\ Len(selections) < MaxSelects
    /\ selections' = IF options.setSelectedPlace
                     THEN Append(selections, placeId) ELSE selections
    /\ UNCHANGED <<predictions, loading, error, status, debounceTimer, timers,
                   elapsed, cancelled, calls, searches, mounted, value,
                   details, options, other, history>>

---------------------------------------------------------------------------
(* Two instances *)

\* (mutant) two instances whose timer ref and timers are one module-level
\* cell: they stay in place when the other instance gets to act
Switch_SharedRef ==
    /\ other' = [InstanceAs(focus) EXCEPT
                    !.debounceTimer = other.debounceTimer,
                    !.timers = other.timers]
    /\ predictions' = other.predictions
    /\ loading' = other.loading
    /\ error' = other.error
    /\ status' = other.status
    /\ elapsed' = other.elapsed
    /\ cancelled' = other.cancelled
    /\ calls' = other.calls
    /\ searches' = other.searches
    /\ mounted' = other.mounted
    /\ value' = other.value
    /\ details' = other.details
    /\ options' = other.options
    /\ selections' = other.selections
    /\ UNCHANGED history
    /\ UNCHANGED <<debounceTimer, timers>>

\* the other instance gets to act: every useState and useRef cell belongs
\* to one call of the hook, so the two instances exchange all of them
Switch ==
    /\ other' = InstanceAs(focus)
    /\ predictions' = other.predictions
    /\ loading' = other.loading
    /\ error' = other.error
    /\ status' = other.status
    /\ debounceTimer' = other.debounceTimer
    /\ timers' = other.timers
    /\ elapsed' = other.elapsed
    /\ cancelled' = other.cancelled
    /\ calls' = other.calls
    /\ searches' = other.searches
    /\ mounted' = other.mounted
    /\ value' = other.value
    /\ details' = other.details
    /\ options' = other.options
    /\ selections' = other.selections
    /\ UNCHANGED history

---------------------------------------------------------------------------
(* The hook *)

Next ==
    \/ \E q \in Queries : debouncedSearch(q)
    \/ Tick
    \/ \E t \in timers : TimerFire(t)
    \/ \E i \in DOMAIN searches : \E r \in Responses : Settle(i, r)
    \/ clear
    \/ Unmount

Spec == Init /\ [][Next]_vars

\* the hook with fewer debouncedSearch calls in one behaviour
NextFair ==
    \/ \E q \in Queries : Len(calls) < MaxFairCalls /\ debouncedSearch(q)
    \/ Tick
    \/ \E t \in timers : TimerFire(t)
    \/ \E i \in DOMAIN searches : \E r \in Responses : Settle(i, r)
    \/ clear
    \/ Unmount

\* the event loop lets time pass and runs every timer that is due
FairSpec ==
    /\ Init /\ [][NextFair]_vars
    /\ WF_vars(Tick)
    /\ WF_vars(\E t \in timers : TimerFire(t))

\* the hook together with calls of getPlaceDetails
NextDetails ==
    \/ \E q \in DetailQueries :
          Len(calls) < MaxDetailCalls /\ debouncedSearch(q)
    \/ Tick
    \/ \E t \in timers : TimerFire(t)
    \/ \E i \in DOMAIN searches : \E r \in Responses : Settle(i, r)
    \/ clear
    \/ Unmount
    \/ \E p \in PlaceIds : getPlaceDetails(p)
    \/ \E i \in DOMAIN details : \E r \in DetailsResponses : DetailsSettle(i, r)

SpecDetails == Init /\ [][NextDetails]_vars

\* the hook constructed with any options, and calls of handlePlaceSelect
NextOptions ==
    \/ \E q \in OptionQueries :
          Len(calls) < MaxOptionCalls /\ debouncedSearch(q)
    \/ Tick
    \/ \E t \in timers : TimerFire(t)
    \/ \E i \in DOMAIN searches : \E r \in Responses : Settle(i, r)
    \/ clear
    \/ Unmount
    \/ \E p \in PlaceIds : handlePlaceSelect(p)

SpecOptions == InitOptions /\ [][NextOptions]_vars

\* the hook with the calls of clear() recorded
InitClear == Construct(DefaultOptions) /\ history = NotCleared

SpecClear == InitClear /\ [][NextFair]_vars

\* two instances of the hook; the interleaving of their timers is free
NextTwo ==
    \/ \E q \in DetailQueries :
          Len(calls) + Len(other.calls) < MaxPairCalls /\ debouncedSearch(q)
    \/ Tick
    \/ \E t \in timers : TimerFire(t)
    \/ \E i \in DOMAIN searches : \E r \in PairResponses : Settle(i, r)
    \/ clear
    \/ Unmount
    \/ Switch

SpecTwo == Init /\ [][NextTwo]_vars

\* the hook driven through setValue, which holds the query text
NextValue ==
    \/ \E q \in Queries : \E f \in BOOLEAN : setValue(q, f)
    \/ Tick
    \/ \E t \in timers : TimerFire(t)
    \/ \E i \in DOMAIN searches : \E r \in Responses : Settle(i, r)
    \/ clear
    \/ Unmount

SpecValue == Init /\ [][NextValue]_vars

---------------------------------------------------------------------------
(* Vocabulary of the properties *)

\* the searches whose fetch is dispatched and not yet answered
InFlight == {i \in DOMAIN searches : searches[i].pc = "fetch"}

\* the timer with handle h is armed
Live(h) == \E t \in timers : t.id = h

\* the query texts that are empty or consist of white space only
Blank == {q \in Queries : \A k \in 1..Len(q) : q[k] = " "}

\* the first call of the run of calls, each less than the debounce interval
\* after the one before it, that call k belongs to
RECURSIVE BurstStart(_)
BurstStart(k) == IF k > 1 /\ calls[k].chained THEN BurstStart(k - 1) ELSE k

\* call k is the last call of its run
BurstEnd(k) == k = Len(calls) \/ ~calls[k + 1].chained

\* the searches invoked by the timers of calls j..k
SearchesOf(j, k) == {i \in DOMAIN searches : searches[i].timer \in j..k}

\* search i settles in this step
Settles(i) == searches[i].pc = "fetch" /\ searches'[i].pc = "done"

\* no debouncedSearch call was made after the unmount
NoLateCalls == \A k \in DOMAIN calls : calls[k].mounted

\* r is a successful answer that carries a suggestion list
Success(r) ==
    /\ r.kind = "response"
    /\ r.ok
    /\ r.body.parses
    /\ r.body.hasSuggestions

\* the successful answers with a non-empty and with an empty suggestion list
NonEmptySuccesses ==
    {r \in Responses : Success(r) /\ Len(r.body.suggestions) > 0}
EmptySuccesses ==
    {r \in Responses : Success(r) /\ Len(r.body.suggestions) = 0}

\* the answers that are no success: a rejected fetch, a failure status, a
\* body that does not parse or has no suggestions field
Failures == {r \in Responses : ~Success(r)}

\* search i ends in this step, by returning or by throwing
Ends(i) == searches[i].pc = "fetch" /\ searches'[i].pc # "fetch"

\* nothing is left to happen: no timer is armed and no fetch is unanswered
Quiescent == timers = {} /\ InFlight = {}

\* the transport failures: fetch rejects
Rejections == {r \in Responses : r.kind = "reject"}

\* the answers with a success status whose body has no suggestions field
Malformed ==
    {r \in Responses :
        r.kind = "response" /\ r.ok /\ r.body.parses /\ ~r.body.hasSuggestions}

---------------------------------------------------------------------------
(* Properties *)

\* C1: a run of N >= 1 debouncedSearch calls with non-empty query text, each
\* made less than the debounce interval after the previous one, never leads
\* to more than one network search call; while its last timer is pending it
\* has led to none, and once that timer has run (it was not cancelled) there
\* is exactly one, carrying the text of the last call of the run.
C1_BurstFetchesOnceWithLastText ==
    \A k \in DOMAIN calls :
        LET j == BurstStart(k)
        IN (BurstEnd(k) /\ \A m \in j..k : calls[m].input \notin Blank) =>
              /\ Cardinality(SearchesOf(j, k)) <= 1
              /\ Live(k) => SearchesOf(j, k) = {}
              /\ (~Live(k) /\ k \notin cancelled) =>
                    \E i \in DOMAIN searches :
                        /\ SearchesOf(j, k) = {i}
                        /\ searches[i].fetched
                        /\ searches[i].timer = k
                        /\ searches[i].input = calls[k].input

\* C1 witness: two calls with different texts less than the interval apart,
\* and the one fetch of the run has been dispatched.
C1_Witness ==
    \E k \in DOMAIN calls :
        /\ k > 1
        /\ calls[k].chained
        /\ calls[k].input \notin Blank
        /\ calls[k - 1].input \notin Blank
        /\ calls[k].input # calls[k - 1].input
        /\ BurstEnd(k)
        /\ \E i \in DOMAIN searches : searches[i].timer = k /\ searches[i].fetched

\* C2 (as claimed): the answer of a search that is not the most recently
\* initiated one never changes predictions, error or loading.
C2_OnlyLatestSearchMutates ==
    [][\A i \in DOMAIN searches :
          (Settles(i) /\ i # Len(searches)) =>
              UNCHANGED <<predictions, error, loading>>]_vars

\* C3 (as claimed): at most one search request is dispatched and unanswered.
C3_AtMostOneInFlight == Cardinality(InFlight) <= 1

\* C3 (amended): at most one search network call is in flight per debounce
\* settle-window: a superseded (cancelled) timer never starts a search and a
\* timer that runs starts exactly one, so the unanswered requests belong to
\* distinct timers that were never cancelled.
C3_OneInFlightPerWindow ==
    /\ \A i \in DOMAIN searches : searches[i].timer \notin cancelled
    /\ \A i, j \in DOMAIN searches :
          searches[i].timer = searches[j].timer => i = j
    /\ Cardinality(InFlight) <= Cardinality(DOMAIN calls \ cancelled)

\* C3 witness: two requests of successive windows are unanswered together.
C3_Witness == Cardinality(InFlight) = 2

\* C4: the unmount cancels the pending timer, and as long as debouncedSearch
\* is not called again no timer is armed, no search is invoked and no network
\* call is made, however much time passes.
C4_TeardownCancelsTimer ==
    /\ [](~mounted /\ NoLateCalls => timers = {})
    /\ [][(~mounted /\ NoLateCalls) => Len(searches') = Len(searches)]_vars

\* C4 witness: a timer was pending at the unmount, and the debounce interval
\* has since run out without a search for it.
C4_Witness ==
    /\ ~mounted
    /\ NoLateCalls
    /\ calls # <<>>
    /\ Len(calls) \in cancelled
    /\ elapsed = DebounceMs
    /\ SearchesOf(Len(calls), Len(calls)) = {}

C6_LoadingFalseAfterTeardown == ~mounted => loading = FALSE

\* C7: a search whose query is empty or only white space makes no network
\* call, and on a mounted component it leaves predictions empty, error none
\* and the status ZERO_RESULTS at once.
C7_BlankQueryShortCircuits ==
    /\ [](\A i \in DOMAIN searches :
             searches[i].input \in Blank =>
                 ~searches[i].fetched /\ searches[i].pc = "done")
    /\ [][(/\ Len(searches') = Len(searches) + 1
           /\ searches'[Len(searches')].input \in Blank
           /\ mounted) =>
              /\ predictions' = <<>>
              /\ error' = NoError
              /\ status' = "ZERO_RESULTS"]_vars

\* C7 witness: a search with the white-space query " " ran after a search
\* with results, and made no fetch.
C7_Witness ==
    /\ mounted
    /\ \E i \in DOMAIN searches :
          /\ i > 1
          /\ searches[i].input = <<" ">>
          /\ searches[i - 1].fetched
          /\ ~searches[i].fetched

\* C8: on a mounted component, starting a search with a non-empty query sets
\* loading to true in that step, and the step in which the search settles,
\* with a result or with any failure, sets loading to false.
C8_LoadingBracketsSearch ==
    [][mounted =>
          /\ (/\ Len(searches') = Len(searches) + 1
              /\ searches'[Len(searches')].input \notin Blank) => loading' = TRUE
          /\ \A i \in DOMAIN searches : Settles(i) => loading' = FALSE]_vars

\* C8 witness: a search has settled with a failure and loading reads false.
C8_Witness ==
    /\ mounted
    /\ error # NoError
    /\ ~loading
    /\ \E i \in DOMAIN searches : searches[i].fetched /\ searches[i].pc = "done"

\* C9: on a mounted component a successful answer with a non-empty
\* suggestion list leaves the status OK and predictions equal to the
\* placePrediction of each suggestion, in the order of the answer.
C9_SuccessMapsSuggestionsInOrder ==
    [][\A i \in DOMAIN searches :
          (Settles(i) /\ mounted) =>
              \A r \in NonEmptySuccesses :
                  Settle(i, r) =>
                      /\ status' = "OK"
                      /\ Len(predictions') = Len(r.body.suggestions)
                      /\ \A k \in 1..Len(r.body.suggestions) :
                            predictions'[k] =
                                r.body.suggestions[k].placePrediction]_vars

\* C9 witness: the two-element answer has been committed.
C9_Witness ==
    /\ mounted
    /\ status = "OK"
    /\ predictions = <<"p2", "p1">>

\* C10 (as claimed): on a mounted component a successful answer with an
\* empty suggestion list leaves the status ZERO_RESULTS, predictions empty
\* and error none.
C10_EmptySuccessIsOkEmpty ==
    [][\A i \in DOMAIN searches :
          (Settles(i) /\ mounted) =>
              \A r \in EmptySuccesses :
                  Settle(i, r) =>
                      /\ status' = "ZERO_RESULTS"
                      /\ predictions' = <<>>
                      /\ error' = NoError]_vars


C12_MalformedSuccessIsError ==
    [][\A i \in DOMAIN searches :
          (Settles(i) /\ mounted) =>
              \A r \in Malformed :
                  Settle(i, r) =>
                      /\ status' = "ERROR"
                      /\ error' # NoError
                      /\ error'.name = "TypeError"
                      /\ predictions' = <<>>]_vars

\* C12 witness: the TypeError of reading the missing list is the stored
\* error.
C12_Witness ==
    /\ mounted
    /\ status = "ERROR"
    /\ predictions = <<>>
    /\ error = [name |-> "TypeError",
                message |-> "Cannot read properties of undefined (reading 'map')"]


\* C13: no failure leaves the search pipeline: for a rejected fetch, a
\* failure status and a malformed or unparsable body, search returns
\* normally and the promise of the debounced call is resolved, and on a
\* mounted component the failure is stored (status ERROR, error set,
\* predictions empty).
C13_FailuresAreAbsorbed ==
    [][\A i \in DOMAIN searches :
          Ends(i) =>
              \A r \in Failures :
                  Settle(i, r) =>
                      /\ searches'[i].pc = "done"
                      /\ calls'[searches[i].timer].promise = "resolved"
                      /\ mounted =>
                            /\ status' = "ERROR"
                            /\ error' # NoError
                            /\ predictions' = <<>>]_vars

\* C13 witness: a search failed with a value that is not an Error, the
\* failure is stored and the promise of its call is resolved.
C13_Witness ==
    /\ mounted
    /\ error = [name |-> "Error", message |-> "An error occurred"]
    /\ \E i \in DOMAIN searches :
          /\ searches[i].pc = "done"
          /\ searches[i].fetched
          /\ calls[searches[i].timer].promise = "resolved"

\* C15 (as claimed): every promise returned by a debounced search call
\* resolves: once no timer is armed and no fetch is unanswered, no promise
\* is left pending, also not that of a call whose timer was superseded or
\* cancelled by the unmount.
C15_EveryPromiseResolves ==
    Quiescent => \A k \in DOMAIN calls : calls[k].promise = "resolved"


Invoked(k) ==
    \E i \in DOMAIN searches :
        searches[i].timer = k /\ searches[i].input = calls[k].input

\* C16: a debouncedSearch call that is followed by the debounce interval
\* without a later call and without the unmount eventually invokes search
\* with exactly its input: every call leads to its search or to its timer
\* being cancelled, and a timer is cancelled only by a later call or by the
\* unmount.
C16_QuietCallInvokesSearch ==
    \A k \in 1..MaxFairCalls :
        /\ (Len(calls) >= k) ~> (Invoked(k) \/ k \in cancelled)
        /\ [](k \in cancelled => (Len(calls) > k \/ ~mounted))

\* C16 witness: the latest call was followed by no other call and by no
\* unmount, and search was invoked with its input.
C16_Witness ==
    /\ mounted
    /\ calls # <<>>
    /\ Len(calls) \notin cancelled
    /\ calls[Len(calls)].input = <<" ", "b">>
    /\ Invoked(Len(calls))


\* C17 (as claimed): when invocations of search overlap, the one whose
\* answer arrives last determines the final predictions and error: with the
\* answer that leaves no fetch unanswered, a mounted component holds the
\* predictions of that answer and no error if it is a success, and no
\* predictions and an error if it is a failure.
C17_LastToCompleteDetermines ==
    [][\A i \in DOMAIN searches :
          (Ends(i) /\ mounted /\ searches[i].raced /\ InFlight = {i}) =>
              \A r \in Responses :
                  Settle(i, r) =>
                      IF Success(r)
                      THEN /\ predictions' = MapSuggestions(r.body.suggestions)
                           /\ error' = NoError
                      ELSE /\ predictions' = <<>>
                           /\ error' # NoError]_vars


\* C18 (as claimed): getPlaceDetails with an empty place identifier fails
\* before any network call: a call with the identifier "" has dispatched no
\* request and is rejected.
C18_EmptyIdFailsBeforeFetch ==
    \A i \in DOMAIN details :
        details[i].placeId = "" =>
            ~details[i].fetched /\ details[i].pc = "rejected"

\* the answers to a details request that are a success
DetailsSuccesses ==
    {r \in DetailsResponses : r.kind = "response" /\ r.ok /\ r.body.parses}

\* details call i ends in this step
DetailsEnds(i) == details[i].pc = "fetch" /\ details'[i].pc # "fetch"

\* C19: getPlaceDetails never changes the state of the search pipeline:
\* every step of a details call, its start and its end for every answer,
\* leaves loading, error and predictions as they are, and a transport
\* failure or remote rejection ends the call rejected with an Error.
C19_DetailsLeavesSearchState ==
    /\ [][details' # details =>
             UNCHANGED <<loading, error, predictions, status>>]_vars
    /\ [][\A i \in DOMAIN details :
             DetailsEnds(i) =>
                 \A r \in DetailsResponses \ DetailsSuccesses :
                     DetailsSettle(i, r) =>
                         /\ details'[i].pc = "rejected"
                         /\ details'[i].rejection # NoError]_vars

\* C19 witness: a details call was rejected while the hook is mounted and
\* holds predictions, and no error is stored.
C19_Witness ==
    /\ mounted
    /\ predictions # <<>>
    /\ error = NoError
    /\ \E i \in DOMAIN details :
          /\ details[i].pc = "rejected"
          /\ details[i].rejection.message = "Place not found"

\* the derived fields of the place details and the tag each is taken from
DerivedFields ==
    { <<"streetNumber", "street_number">>, <<"streetName", "route">>,
      <<"city", "locality">>, <<"state", "administrative_area_level_1">>,
      <<"country", "country">>, <<"postalCode", "postal_code">> }

\* component k of comps carries the tag
Carries(comps, k, tag) == \E j \in DOMAIN comps[k].types : comps[k].types[j] = tag

\* v is the long text of the first component of comps that carries the tag,
\* or undefined when none does
FirstLongText(comps, tag, v) ==
    IF \E k \in DOMAIN comps : Carries(comps, k, tag)
    THEN \E k \in DOMAIN comps :
            /\ Carries(comps, k, tag)
            /\ \A j \in 1..(k - 1) : ~Carries(comps, j, tag)
            /\ v = comps[k].longText
    ELSE v = Undefined

\* C20: on a successful details response each derived field is the long
\* text of the first address component whose types contain its tag, and
\* undefined when no component carries the tag; a response without
\* addressComponents gives an empty component sequence and all six derived
\* fields undefined.
C20_DerivedFieldsFromFirstMatch ==
    [][\A i \in DOMAIN details :
          DetailsEnds(i) =>
              \A r \in DetailsSuccesses :
                  DetailsSettle(i, r) =>
                      LET res == details'[i].result
                      IN /\ details'[i].pc = "resolved"
                         /\ IF r.body.hasComponents
                            THEN /\ res.addressComponents =
                                        r.body.addressComponents
                                 /\ \A f \in DerivedFields :
                                       FirstLongText(r.body.addressComponents,
                                                     f[2], res[f[1]])
                            ELSE /\ res.addressComponents = <<>>
                                 /\ \A f \in DerivedFields :
                                       res[f[1]] = Undefined]_vars

\* C20 witness: a details call resolved for a body in which two components
\* carry the tag locality: city is the long text of the first, and the
\* fields whose tag no component carries are undefined.
C20_Witness ==
    \E i \in DOMAIN details :
        /\ details[i].pc = "resolved"
        /\ Len(details[i].result.addressComponents) = 2
        /\ details[i].result.city = "Shelbyville"
        /\ details[i].result.country = Undefined


\* the message the claimed rule gives for the failure answer r: the one of
\* the error body when it has one, else one made from the status code
RuleMessage(r) ==
    IF r.body.parses /\ r.body.errorMessage # Undefined
    THEN r.body.errorMessage
    ELSE "HTTP error! status: " \o ToString(r.status)

\* C21 (as claimed): for every answer with a failure HTTP status the error
\* carries the message of the error body when there is one and otherwise
\* the message made from the status code: search stores that error with
\* status ERROR and no predictions (on a mounted component), and
\* getPlaceDetails is rejected with the error of the same rule.
C21_HttpFailureMessage ==
    /\ [][\A i \in DOMAIN searches :
             (Ends(i) /\ mounted) =>
                 \A r \in {x \in Responses : x.kind = "response" /\ ~x.ok} :
                     Settle(i, r) =>
                         /\ error' = [name |-> "Error",
                                      message |-> RuleMessage(r)]
                         /\ status' = "ERROR"
                         /\ predictions' = <<>>]_vars
    /\ [][\A i \in DOMAIN details :
             DetailsEnds(i) =>
                 \A r \in {x \in DetailsResponses :
                             x.kind = "response" /\ ~x.ok} :
                     DetailsSettle(i, r) =>
                         /\ details'[i].pc = "rejected"
                         /\ details'[i].rejection =
                               [name |-> "Error",
                                message |-> RuleMessage(r)]]_vars


C23_SelectOnlyCallsBack ==
    [][\A p \in PlaceIds :
          handlePlaceSelect(p) =>
              /\ selections' = IF options.setSelectedPlace
                               THEN selections \o <<p>> ELSE selections
              /\ UNCHANGED <<details, searches, timers, calls, predictions,
                             loading, error, status, value>>]_vars

\* C23 witness: the callback was called with the identifier "1" while a
\* search is loading, and no details lookup exists.
C23_Witness ==
    /\ options.setSelectedPlace
    /\ selections = <<"1">>
    /\ loading
    /\ details = <<>>


\* C24: a freshly constructed instance, and the instance for as long as no
\* search was scheduled, has an empty query text, status ZERO_RESULTS, no
\* predictions, loading false, no error, no pending timer and no network
\* call made, whatever options it was constructed with.
C24_FreshInstance ==
    calls = <<>> =>
        /\ value = <<>>
        /\ status = "ZERO_RESULTS"
        /\ predictions = <<>>
        /\ loading = FALSE
        /\ error = NoError
        /\ debounceTimer = 0
        /\ timers = {}
        /\ searches = <<>>
        /\ details = <<>>

\* C24 witness: an instance constructed with options, on which nothing was
\* called yet.
C24_Witness ==
    /\ calls = <<>>
    /\ selections = <<>>
    /\ mounted
    /\ options.language = Supplied("de")
    /\ options.location # NotSupplied
    /\ elapsed = debounceMs


\* C25: in every reachable state at most one debounce timer is armed, and
\* it is the one of the latest debouncedSearch call, whose handle the ref
\* holds: every call cancels the pending timer before it arms its own.
C25_AtMostOneTimerLive ==
    /\ Cardinality(timers) <= 1
    /\ \A t \in timers : t.id = debounceTimer /\ t.id = Len(calls)

\* C25 witness: a second call came while the timer of the first was
\* pending: the first timer is cancelled and the second is armed.
C25_Witness ==
    /\ Len(calls) = 2
    /\ cancelled = {1}
    /\ Live(2)
    /\ searches = <<>>


\* C26: the debounce path dispatches nothing by itself: a debouncedSearch
\* call leaves the searches as they are, and search is invoked only when
\* the debounce interval has fully passed since the latest debouncedSearch
\* call.
C26_NoFetchBeforeDelay ==
    /\ [][\A q \in Queries : debouncedSearch(q) => searches' = searches]_vars
    /\ [][Len(searches') > Len(searches) =>
             /\ elapsed = debounceMs
             /\ searches'[Len(searches')].timer = Len(calls)]_vars

\* C26 witness: a second call restarted the interval and cancelled the first
\* timer; the fetch of the second call is dispatched, the full interval
\* after it.
C26_Witness ==
    /\ Len(calls) = 2
    /\ calls[2].chained
    /\ cancelled = {1}
    /\ elapsed = debounceMs
    /\ \E i \in DOMAIN searches : searches[i].timer = 2 /\ searches[i].fetched


\* C27: starting a search for a non-blank text sets error to none and
\* loading to true and leaves the predictions as they were (on a mounted
\* component), and they stay so until an outcome arrives: the predictions
\* change only when a search ends, a blank search clears them or clear is
\* called.
C27_StartKeepsPredictions ==
    /\ [][(/\ Len(searches') = Len(searches) + 1
           /\ searches'[Len(searches')].fetched
           /\ mounted) =>
             /\ error' = NoError
             /\ loading' = TRUE
             /\ predictions' = predictions]_vars
    /\ [][predictions' # predictions =>
             \/ clear
             \/ \E i \in DOMAIN searches : Ends(i)
             \/ /\ Len(searches') = Len(searches) + 1
                /\ ~searches'[Len(searches')].fetched]_vars

\* C27 witness: a second search was started after the first had committed
\* predictions: it is loading, and the predictions are still there.
C27_Witness ==
    /\ mounted
    /\ Len(searches) = 2
    /\ searches[1].pc = "done"
    /\ searches[2].pc = "fetch"
    /\ ~searches[2].raced
    /\ loading
    /\ error = NoError
    /\ predictions # <<>>

\* C28: the autocomplete request body always has the query text as input
\* and the language code, "en" when none is configured; it has types
\* exactly when the types option was supplied, and locationBias exactly
\* when a location was supplied, with the centre's latitude and longitude
\* and a radius exactly when the location has one.
C28_RequestBody ==
    \A i \in DOMAIN searches :
        searches[i].fetched =>
            LET b == searches[i].body
            IN /\ {"input", "languageCode"} \subseteq DOMAIN b
               /\ DOMAIN b \subseteq
                     {"input", "languageCode", "types", "locationBias"}
               /\ b["input"] = searches[i].input
               /\ b["languageCode"] =
                     (IF options.language = NotSupplied THEN "en"
                      ELSE options.language[1])
               /\ "types" \in DOMAIN b <=> options.types # NotSupplied
               /\ "types" \in DOMAIN b => b["types"] = options.types[1]
               /\ "locationBias" \in DOMAIN b <=>
                     options.location # NotSupplied
               /\ "locationBias" \in DOMAIN b =>
                     LET c == b["locationBias"].circle
                         l == options.location[1]
                     IN /\ c.center = [latitude |-> l.lat,
                                       longitude |-> l.lng]
                        /\ "radius" \in DOMAIN c <=> l.radius # NotSupplied
                        /\ "radius" \in DOMAIN c => c.radius = l.radius[1]

\* C28 witness: a request went out from a hook configured with a language,
\* an empty types list and a location without radius.
C28_Witness ==
    /\ options.language = Supplied("de")
    /\ options.types = Supplied(<<>>)
    /\ options.location # NotSupplied
    /\ options.location[1].radius = NotSupplied
    /\ \E i \in DOMAIN searches :
          /\ searches[i].fetched
          /\ searches[i].input = <<" ", "b">>
          /\ DOMAIN searches[i].body =
                {"input", "languageCode", "types", "locationBias"}


\* C30 (as claimed): in every reachable state an error that is not none
\* comes with an empty prediction sequence, and so predictions that are not
\* empty come with no error.
C30_ErrorExcludesPredictions ==
    error # NoError => predictions = <<>>


\* what instance n shows: its predictions, loading and error, its timer ref
\* and its armed timers
View(n) ==
    IF n = focus
    THEN [predictions |-> predictions, loading |-> loading, error |-> error,
          debounceTimer |-> debounceTimer, timers |-> timers]
    ELSE [predictions |-> other.predictions, loading |-> other.loading,
          error |-> other.error, debounceTimer |-> other.debounceTimer,
          timers |-> other.timers]

\* C29: two instances share nothing: a debouncedSearch call, a timer
\* firing, an answer, clear or the unmount on one instance leaves the
\* pending timer, the predictions, loading and error of the other instance
\* as they are, and which instance acts next changes neither's.
C29_InstancesShareNothing ==
    [][\A n \in {1, 2} :
          (n # focus \/ focus' # focus) => View(n)' = View(n)]_vars

\* C29 witness: instance 1 has a timer pending and instance 2, acting
\* after it, scheduled a search, got it answered and was unmounted, while
\* the timer of instance 1 is still armed.
C29_Witness ==
    /\ focus = 2
    /\ ~mounted
    /\ predictions # <<>>
    /\ other.mounted
    /\ other.timers # {}
    /\ other.predictions = <<>>


\* C31 (as claimed): in every reachable state before the unmount, loading
\* is true exactly when a search fetch is dispatched and not yet answered;
\* loading is never false while a fetch is unanswered.
C31_LoadingIffInFlight ==
    mounted => (loading <=> InFlight # {})

\* C32 (as claimed): once clear() was called and no debouncedSearch call was
\* made since, predictions are empty and error is null: neither a timer that
\* was pending nor a fetch that was in flight at the clear writes them.
C32_ClearHolds ==
    (mounted /\ history.cleared /\ history.at = Len(calls)) =>
        (predictions = <<>> /\ error = NoError)

\* C33: a call of clear() leaves loading, the timer handle, the armed timers
\* and every search as they are; a timer that fires with a query that trims
\* to nothing leaves loading, the timer handle, the other armed timers and
\* every unanswered fetch as they are.
C33_ClearFrame ==
    [][/\ clear =>
            /\ loading' = loading
            /\ debounceTimer' = debounceTimer
            /\ timers' = timers
            /\ searches' = searches
       /\ \A t \in timers :
            (TimerFire(t) /\ Trim(t.input) = <<>>) =>
                /\ loading' = loading
                /\ debounceTimer' = debounceTimer
                /\ timers' = timers \ {t}
                /\ InFlight' = InFlight
                /\ \A i \in DOMAIN searches : searches'[i] = searches[i]]_vars

\* clear() was called after the latest debouncedSearch call, and a query that
\* trims to nothing reached search after a fetch that is still unanswered:
\* the hook is still loading
C33_Witness ==
    /\ mounted /\ loading
    /\ history.cleared /\ history.at = Len(calls)
    /\ \E i \in InFlight : \E j \in DOMAIN searches :
            j > i /\ ~searches[j].fetched

\* C34: the debounce is trailing-edge: every armed timer is that of the
\* latest debouncedSearch call and is due the full debounce interval after
\* that call; a call followed by another less than the interval later never
\* reaches search, and neither does the latest call before the interval has
\* passed: while the calls keep arriving less than the interval apart,
\* nothing is dispatched.
C34_TrailingEdge ==
    /\ \A t \in timers :
            t.id = Len(calls) /\ t.remaining = debounceMs - elapsed
    /\ \A i \in DOMAIN searches :
            /\ BurstEnd(searches[i].timer)
            /\ searches[i].timer = Len(calls) => elapsed = debounceMs
    /\ (elapsed < debounceMs /\ \A k \in 2..Len(calls) : calls[k].chained) =>
            searches = <<>>

\* C34 witness: a second and a third call each arrived less than the interval
\* after the call before and restarted the timer; time has passed since, and
\* nothing is dispatched
C34_Witness ==
    /\ Len(calls) = 3
    /\ calls[2].chained /\ calls[3].chained
    /\ cancelled = {1, 2}
    /\ 0 < elapsed /\ elapsed < debounceMs
    /\ \E t \in timers : t.id = 3 /\ t.remaining = debounceMs - elapsed
    /\ searches = <<>>

\* C35 (as claimed): a debouncedSearch call made after the unmount arms no
\* timer and no search is invoked for it.
C35_LateCallArmsNothing ==
    \A k \in DOMAIN calls :
        ~calls[k].mounted =>
            /\ ~Live(k)
            /\ \A i \in DOMAIN searches : searches[i].timer # k

\* C36: the request of every dispatched search carries the query text of the
\* debouncedSearch call whose timer invoked it, and there are never more
\* dispatched searches than debouncedSearch calls whose text trims to
\* something.
C36_FetchCarriesCallText ==
    /\ \A i \in DOMAIN searches :
            searches[i].fetched =>
                /\ searches[i].timer \in DOMAIN calls
                /\ searches[i].body.input = calls[searches[i].timer].input
    /\ Cardinality({i \in DOMAIN searches : searches[i].fetched})
            <= Cardinality({k \in DOMAIN calls : Trim(calls[k].input) # <<>>})

\* C36 witness: of three calls, one with a blank text, the two others reached
\* search and dispatched; one of them carries a text with leading white space
C36_Witness ==
    /\ Len(calls) = 3
    /\ \E k \in DOMAIN calls : Trim(calls[k].input) = <<>>
    /\ Cardinality({i \in DOMAIN searches : searches[i].fetched}) = 2
    /\ \E i \in DOMAIN searches :
            /\ searches[i].fetched
            /\ searches[i].body.input = <<" ", "b">>
            /\ calls[searches[i].timer].input = <<" ", "b">>

====
